---- MODULE Spec2Model ----
(*************************************************************************)
(* Credential lifecycle, activation codes and RBAC of the ct19 API       *)
(* server (api.Server, api.remoteInterface, storage.Handler).            *)
(*                                                                       *)
(* Strings produced by cryptographic primitives are modelled            *)
(* symbolically: a signature is the pair (signing key, signed claims), a *)
(* keyed hash is the pair (key, seed).  Nobody but the holder of a key   *)
(* can build a value carrying that key.                                  *)
(*************************************************************************)
EXTENDS Integers, Sequences, FiniteSets, TLC

\* ----------------------------------------------------------------------
\* Bounds of the model
\* ----------------------------------------------------------------------
MaxCodes  == 2      \* activation codes generated in one behaviour
MaxTokens == 2      \* credentials issued in one behaviour
MaxQueue  == 1      \* task messages published in one behaviour
MaxTicks  == 1      \* clock advances in one behaviour
MaxOps    == 3      \* codes, credentials, messages and clock advances together
MaxDeliveries == 2  \* deliveries the worker handles in one behaviour
MaxSubs   == 1      \* subscription attempts of the worker in one behaviour

\* ----------------------------------------------------------------------
\* Program constants
\* ----------------------------------------------------------------------
userCodeTTL  == 60
agentCodeTTL == 86400
Expiration   == 604800          \* "168h"
NotBefore    == 0               \* "0ms"
MaxRecords   == 100
hashKeyLen   == 32              \* sha3.Sum256 digest used as blake2b key
blake2bMaxKey == 64             \* blake2b.New256 rejects longer keys

supportedRoles == <<"user", "agent", "admin">>

\* Server name (ServerOptions.Name): issuer and audience of credentials.
ServerName == "ct19"
\* Key identifier registered in the token generator.
MasterKey  == "master"
\* Content of root-ca.pem, the seed of the hash key.
RootSecret == "root-ca.pem"

\* A time later than every instant the bounded clock can reach.
Far == 1 + (MaxTicks + 1) * (Expiration + 1)

\* ----------------------------------------------------------------------
\* Identities
\* ----------------------------------------------------------------------
\* DIDs that parse and resolve to a published document.
Resolvable == {"did:a", "did:b"}
\* A DID that parses but has no published document, and a string that is
\* not a DID at all.
Unpublished == "did:x"
NotADID     == "junk"
DIDStrings  == Resolvable \cup {Unpublished, NotADID}

\* did.Parse
didParse(id) == id # NotADID

\* utils.ResolveDID: the identifier instance, with its key set.
ResolveDID(id) ==
  IF id \in Resolvable
    THEN [ok |-> TRUE,  did |-> id, keys |-> {[did |-> id, name |-> "master"]}]
    ELSE [ok |-> FALSE, did |-> id, keys |-> {}]

\* ----------------------------------------------------------------------
\* Linked-data signatures (utils.VerifySignature)
\* ----------------------------------------------------------------------
\* A proof document: decodes or not, names its creator key, and carries a
\* signature value made with some private key over some digest.
sha3Sum256(data) == [sha3 |-> data]

Proof(creatorDid, signerDid, data) ==
  [decodes |-> TRUE,
   creator |-> [did |-> creatorDid, name |-> "master"],
   signer  |-> [did |-> signerDid, name |-> "master"],
   digest  |-> sha3Sum256(data)]

GarbageProof ==
  [decodes |-> FALSE,
   creator |-> [did |-> NotADID, name |-> ""],
   signer  |-> [did |-> NotADID, name |-> ""],
   digest  |-> sha3Sum256(0)]

\* A verification that stops after finding the creator's key.
VerifySignatureKeyOnly(id, data, ldSignature) ==
  IF ~ldSignature.decodes THEN "invalid signature document"
  ELSE IF ldSignature.creator \notin id.keys THEN "invalid key identifier"
  ELSE "nil"

VerifySignature(id, data, ldSignature) ==
  IF ~ldSignature.decodes THEN "invalid signature document"
  ELSE IF ldSignature.creator \notin id.keys THEN "invalid key identifier"
  ELSE IF ~(ldSignature.signer = ldSignature.creator
            /\ ldSignature.digest = sha3Sum256(data))
    THEN "invalid signature"
  ELSE "nil"

\* ----------------------------------------------------------------------
\* Bearer tokens (jwx)
\* ----------------------------------------------------------------------
\* JSON claim values: a string or a number.
JStr(s) == <<"string", s>>
JNum(s) == <<"number", s>>
IsJStr(v) == v[1] = "string"

RoleStrings == {"user", "agent", "admin", "guest"}

ZeroClaims ==
  [iss |-> "", aud |-> {}, sub |-> "", did |-> JStr(""), role |-> JStr(""),
   iat |-> 0, nbf |-> 0, exp |-> 0, jti |-> 0]

\* A signature value: the key that produced it and the claims it covers.
Sign(key, claims) == [key |-> key, over |-> claims]

\* The compact serialisation of a token: its claims and its signature.
\* parses = FALSE stands for a string that is not a JWT.
TokenString(claims, sig) ==
  [parses |-> TRUE, claims |-> claims, sig |-> sig]

GarbageString ==
  [parses |-> FALSE, claims |-> ZeroClaims, sig |-> Sign("", ZeroClaims)]

\* Whether the signature of a token is a signature by the server's master
\* key over the claims the token carries.
SignedByMaster(t) == t.parses /\ t.sig = Sign(MasterKey, t.claims)


\* jwx.Parse: a token instance, or an error for a string that is no JWT.
\* No key takes part in parsing.
jwxParse(s) == [ok |-> s.parses, token |-> s]

\* The claim validators of jwx, in the order authenticate lists them; the
\* result is the first failing check, "nil" when all pass.
IssuerValidator(c, iss)      == c.iss = iss
AudienceValidator(c, aud)    == aud \subseteq c.aud
NotBeforeValidator(c, t)     == ~(t < c.nbf)
IssuedAtValidator(c, t)      == ~(t < c.iat)
ExpirationTimeValidator(c, t) == ~(t > c.exp)

\* tokenValidate without the expiration validator.
tokenValidateNoExp(token, checkExpiration, t) ==
  LET c == token.claims IN
  IF ~IssuerValidator(c, ServerName) THEN "iss"
  ELSE IF ~AudienceValidator(c, {ServerName}) THEN "aud"
  ELSE IF ~NotBeforeValidator(c, t) THEN "nbf"
  ELSE IF ~IssuedAtValidator(c, t) THEN "iat"
  ELSE "nil"

tokenValidate(token, checkExpiration, t) ==
  LET c == token.claims IN
  IF ~IssuerValidator(c, ServerName) THEN "iss"
  ELSE IF ~AudienceValidator(c, {ServerName}) THEN "aud"
  ELSE IF ~NotBeforeValidator(c, t) THEN "nbf"
  ELSE IF ~IssuedAtValidator(c, t) THEN "iat"
  ELSE IF checkExpiration /\ ~ExpirationTimeValidator(c, t) THEN "exp"
  ELSE "nil"

\* token.Decode(&credentialsData{}): fails when a custom claim is not a
\* JSON string.
tokenDecode(token) ==
  IF IsJStr(token.claims.did) /\ IsJStr(token.claims.role)
    THEN [ok |-> TRUE,  DID |-> token.claims.did[2], Role |-> token.claims.role[2]]
    ELSE [ok |-> FALSE, DID |-> "", Role |-> ""]

\* ----------------------------------------------------------------------
\* Request metadata
\* ----------------------------------------------------------------------
\* One value of the "authorization" metadata key: whether it starts with
\* "Bearer", how many space-separated fields it has, and its second field.
Header(bearer, fields, tok) == [bearer |-> bearer, fields |-> fields, tok |-> tok]
BearerHeader(tok) == Header(TRUE, 2, tok)

\* getTokenFromContext: md is the sequence of values of "authorization".
\* at names the failing step; "panic" is the index-out-of-range of
\* strings.Split(t[0], " ")[1] on a value without a space.
getTokenFromContext(md) ==
  IF Len(md) # 1
    THEN [code |-> "Unauthenticated", at |-> "metadata", token |-> GarbageString]
  ELSE IF ~md[1].bearer
    THEN [code |-> "Unauthenticated", at |-> "metadata", token |-> GarbageString]
  ELSE IF md[1].fields < 2
    THEN [code |-> "panic", at |-> "metadata", token |-> GarbageString]
  ELSE IF ~jwxParse(md[1].tok).ok
    THEN [code |-> "Unknown", at |-> "parse", token |-> GarbageString]
  ELSE [code |-> "OK", at |-> "nil", token |-> jwxParse(md[1].tok).token]

\* Server.authenticate
authenticate(md, checkExpiration, t) ==
  LET r == getTokenFromContext(md) IN
  IF r.code # "OK" THEN r
  ELSE LET v == tokenValidate(r.token, checkExpiration, t) IN
       IF v # "nil"
         THEN [code |-> "Unauthenticated", at |-> v, token |-> GarbageString]
         ELSE r

\* ----------------------------------------------------------------------
\* Authorization (utils.AccessPolicy, setupAuthEnforcer, Server.authorize)
\* ----------------------------------------------------------------------
Comment == [kind |-> "comment", sub |-> "", res |-> "", act |-> ""]
Blank   == [kind |-> "blank",   sub |-> "", res |-> "", act |-> ""]
R(sub, res, act) == [kind |-> "rule", sub |-> sub, res |-> res, act |-> act]

\* The policy text, line by line.
AccessPolicy ==
  << Blank,
     Comment, Comment, Comment,
     R("user", "/credentials", "renew"),
     R("user", "/record", "create"),
     Blank,
     Comment, Comment, Comment, Comment,
     R("agent", "/credentials", "renew"),
     R("agent", "/record", "create"),
     R("agent", "/notification", "create"),
     Blank,
     Comment,
     R("admin", ".*", ".*"),
     Blank >>

\* setupAuthEnforcer: comments and empty lines are skipped, every other
\* line becomes a rule of the enforcer.
setupAuthEnforcer == SelectSeq(AccessPolicy, LAMBDA l : l.kind = "rule")

\* A rule pattern against a value: the policy uses literal names and the
\* match-all pattern only.
PatternMatch(pattern, s) == pattern = ".*" \/ pattern = s

\* Evaluate without the comparison of the subject.
EvaluateAnySubject(enf, subject, resource, action) ==
  \E i \in 1..Len(enf) :
     /\ PatternMatch(enf[i].res, resource)
     /\ PatternMatch(enf[i].act, action)

\* Enforcer.Evaluate: some rule of the subject matches; otherwise deny.
Evaluate(enf, subject, resource, action) ==
  \E i \in 1..Len(enf) :
     /\ enf[i].sub = subject
     /\ PatternMatch(enf[i].res, resource)
     /\ PatternMatch(enf[i].act, action)

\* Server.authorize
authorize(token, resource, action) ==
  LET data == tokenDecode(token) IN
  IF ~data.ok THEN FALSE
  ELSE Evaluate(setupAuthEnforcer, data.Role, resource, action)

\* isRoleValid
isRoleValid(role) == \E i \in 1..Len(supportedRoles) : role = supportedRoles[i]

\* The role gate without the isRoleValid half, and without the admin half.
roleRejectedAdminOnly(role) == role = "admin"
roleRejectedUnsupportedOnly(role) == ~isRoleValid(role)

\* The role gate of the ActivationCode and Credentials RPCs.
roleRejected(role) == ~isRoleValid(role) \/ role = "admin"

\* ----------------------------------------------------------------------
\* Refresh codes
\* ----------------------------------------------------------------------
\* hashKey: the sha3 digest of root-ca.pem.
hashKey == [sha3 |-> RootSecret, len |-> hashKeyLen]

\* A refresh code is the keyed hash of the token string; the empty string
\* is the result when the hash cannot be set up.
EmptyCode == [key |-> "", seed |-> GarbageString]
JunkCode  == [key |-> "junk", seed |-> GarbageString]

\* The hash key of a server set up with another root-ca.pem, as before a
\* rotation of the key.
RotatedSecret == "rotated-root-ca.pem"
hashKeyRotated == [sha3 |-> RotatedSecret, len |-> hashKeyLen]

\* A hash of the seed alone, with no key.
getRefreshCodeUnkeyed(hk, seed) ==
  IF hk.len > blake2bMaxKey THEN EmptyCode
  ELSE [key |-> "none", seed |-> seed]

getRefreshCode(hk, seed) ==
  IF hk.len > blake2bMaxKey THEN EmptyCode
  ELSE [key |-> hk.sha3, seed |-> seed]

\* ----------------------------------------------------------------------
\* State
\* ----------------------------------------------------------------------
VARIABLES
  now,        \* the clock (unix seconds) read by time.Now()
  ticks,      \* number of clock advances so far
  codes,      \* the <role>_codes collections: documents (role, did, code, created)
  nextCode,   \* the next fresh activation code (uuid.New)
  issued,     \* every credential returned so far, with its provenance
  nextJti,    \* the next fresh token identifier
  queue,      \* the "tasks" queue of the broker
  hs,         \* the Credentials requests in flight, one per handler
  consumed,   \* activation codes for which VerifyActivationCode has returned true
  delFailed,  \* activation codes for which a DeleteMany call failed
  tgOk,       \* whether the token generator can sign with the master key
  handled,    \* the deliveries the worker has handled, in order, with the path taken
  acks,       \* the delivery numbers of the Ack calls made, in order
  nacks,      \* the delivery numbers of the Nack and Reject calls made, in order
  inserts,    \* the record lists the store has saved, one per InsertMany
  wlog,       \* the log lines of the worker
  publishes,  \* the delivery numbers for which a publishDID goroutine was started
  worker,     \* "running", or "panicked" once a goroutine of the worker has panicked
  subs,       \* the Subscribe calls of the worker's event loop so far
  consuming,  \* whether a handleTasks goroutine reads a live deliveries channel
  tasks,      \* the handleTasks goroutines started so far, each with what it does
  inflight,   \* the delivery handleTasks has taken and not yet acknowledged, if any
  loop,       \* per component, whether its eventLoop goroutine is running or has returned
  ctxDone,    \* per component, whether its context has been cancelled
  closing     \* per component, how far its Close call has got

serverVars == <<now, ticks, codes, nextCode, issued, nextJti, queue, hs, consumed,
                delFailed, tgOk>>
workerVars == <<handled, acks, nacks, inserts, wlog, publishes, worker, subs, consuming,
                tasks, inflight>>
closeVars  == <<loop, ctxDone, closing>>
asyncVars  == <<workerVars, closeVars>>

vars == <<serverVars, asyncVars>>

\* The two processes of the system, each with an event loop and a Close.
Components == {"server", "worker"}

\* Concurrent handlers of the Credentials RPC.
Handlers == {"h1", "h2"}

CodeIds == 1..MaxCodes

Idle == [pc |-> "idle", did |-> "", role |-> "", code |-> 0, afterOk |-> FALSE,
         proof |-> GarbageProof]

Init ==
  /\ now = 1
  /\ ticks = 0
  /\ codes = {}
  /\ nextCode = 1
  /\ issued = {}
  /\ nextJti = 1
  /\ queue = <<>>
  /\ hs = [p \in Handlers |-> Idle]
  /\ consumed = {}
  /\ delFailed = {}
  /\ tgOk \in BOOLEAN
  /\ handled = <<>>
  /\ acks = <<>>
  /\ nacks = <<>>
  /\ inserts = <<>>
  /\ wlog = <<>>
  /\ inflight = <<>>
  /\ publishes = {}
  /\ worker = "running"
  /\ subs = 0
  /\ consuming = FALSE
  /\ tasks = <<>>
  /\ loop = [c \in Components |-> "running"]
  /\ ctxDone = [c \in Components |-> FALSE]
  /\ closing = [c \in Components |-> "no"]

\* ----------------------------------------------------------------------
\* What a client can send
\* ----------------------------------------------------------------------
\* A token with claims of the sender's choice, signed with a key that is
\* not the server's.
Forged(claims) == TokenString(claims, Sign("attacker", claims))

\* An issued token whose role claim was rewritten, the signature kept.
Tamper(t) == [t EXCEPT !.claims.role = JStr("admin")]

BaseClaims ==
  [iss |-> ServerName, aud |-> {ServerName}, sub |-> "did:b",
   did |-> JStr("did:b"), role |-> JStr("user"),
   iat |-> 0, nbf |-> 0, exp |-> Far, jti |-> 0]

ForgedTokens ==
  { Forged(c) : c \in
      { BaseClaims,
        [BaseClaims EXCEPT !.role = JStr("admin")],
        [BaseClaims EXCEPT !.role = JStr("guest")],
        [BaseClaims EXCEPT !.role = JNum("7")],
        [BaseClaims EXCEPT !.iss = "evil"],
        [BaseClaims EXCEPT !.aud = {"evil"}],
        [BaseClaims EXCEPT !.exp = 0],
        [BaseClaims EXCEPT !.exp = 1],
        [BaseClaims EXCEPT !.nbf = Far],
        [BaseClaims EXCEPT !.iat = Far] } }

IssuedTokens == { c.token : c \in issued }

Presentable ==
  IssuedTokens \cup { Tamper(t) : t \in IssuedTokens }
               \cup ForgedTokens \cup {GarbageString}

\* Values of the request metadata: no authorization value, or one bearer
\* value.
Metadata ==
  { <<>>, <<Header(FALSE, 2, GarbageString)>>, <<Header(TRUE, 1, GarbageString)>> }
    \cup { <<BearerHeader(t)>> : t \in Presentable }

\* Refresh codes a client can send: those the server returned, the empty
\* string and a made-up one.
RefreshCodes == { c.refresh : c \in issued } \cup {EmptyCode, JunkCode}

\* Proof documents a client can send with a request for did over code.
Proofs(did, code) ==
  { Proof(did, did, code), Proof(Unpublished, Unpublished, code),
    Proof(did, did, 0), GarbageProof }

\* Sizes of the record batches a client submits.
BatchLens == {MaxRecords, MaxRecords + 1}

\* What the broker answers to a first and to a second attempt to publish
\* one message.
PushAttempts == { <<"ok", "ok">>, <<"nack", "ok">>, <<"err", "ok">>, <<"err", "err">> }

\* DIDs named in activation-code requests.
CodeDIDs == {"did:a", NotADID}

\* What the operator of the register command enters: the command exists
\* for the initial administrator credentials and checks no role.
RegisterDIDs  == {"did:a", Unpublished, NotADID}
RegisterRoles == {"admin", "guest"}

\* The behaviours explored create at most MaxOps codes, credentials,
\* messages (queued, in flight or handled) and clock advances in total.
Budget ==
  (nextCode - 1) + (nextJti - 1) + Len(queue) + Len(inflight) + Len(handled) + ticks
    < MaxOps

\* An outcome: the status code of the response and the step that produced
\* it ("nil" when the request went through).
Outcome(code, at) == [code |-> code, at |-> at]
Done == Outcome("OK", "nil")

\* ----------------------------------------------------------------------
\* Credential issuance
\* ----------------------------------------------------------------------
\* jwx.Generator.NewToken with the parameters getToken passes.
NewToken(id, role, t, jti) ==
  LET claims == [iss |-> ServerName, aud |-> {ServerName}, sub |-> id,
                 did |-> JStr(id), role |-> JStr(role),
                 iat |-> t, nbf |-> t + NotBefore, exp |-> t + Expiration,
                 jti |-> jti]
  IN TokenString(claims, Sign(MasterKey, claims))

\* Server.getToken: the credentials response.
getToken(id, role, t, jti) ==
  LET token == NewToken(id, role, t, jti) IN
  [token |-> token, refresh |-> getRefreshCode(hashKey, token)]

\* The record kept of a returned credential: root is the entry point that
\* issued the first credential of its renewal chain; from and with are the
\* token and the refresh code of the renewal request that returned it
\* (no token and the empty code for a credential that renews nothing).
Issue(cred, root, from, with) ==
  /\ nextJti <= MaxTokens
  /\ Budget
  /\ issued' = issued \cup
       {[token |-> cred.token, refresh |-> cred.refresh, root |-> root,
         from |-> from, with |-> with]}
  /\ nextJti' = nextJti + 1

\* The checks of AccessToken without the verification of the proof.
AccessTokenChecksResolveOnly(did, code, proof) ==
  IF ~ResolveDID(did).ok THEN "resolve" ELSE "nil"

\* Server.AccessToken up to the activation-code check: identity resolution
\* and the proof over the activation code.
AccessTokenChecks(did, code, proof) ==
  LET identifier == ResolveDID(did) IN
  IF ~identifier.ok THEN "resolve"
  ELSE IF VerifySignature(identifier, code, proof) # "nil" THEN "proof"
  ELSE "nil"

\* ----------------------------------------------------------------------
\* storage.Handler
\* ----------------------------------------------------------------------
\* A query over the codes of every role.
MatchingAnyRole(did, role, code) ==
  { d \in codes : d.did = did /\ d.code = code }

\* The documents a (did, role, code) query selects: those of the did and
\* code in the collection of the role.
Matching(did, role, code) ==
  { d \in codes : d.role = role /\ d.did = did /\ d.code = code }

\* col.FindOne(ctx, query): res.Err() == nil
FindOne(did, role, code, storeOk) == storeOk /\ Matching(did, role, code) # {}

\* col.DeleteMany(ctx, query); its result and error are dropped.
DeleteMany(did, role, code, storeOk) ==
  IF storeOk THEN codes \ Matching(did, role, code) ELSE codes

\* ttlIndex: the expireAfterSeconds of the <role>_codes collection.
ttlIndex(role) == IF role = "agent" THEN agentCodeTTL ELSE userCodeTTL

\* A pass of the store's TTL monitor over the indexes setup creates: the
\* documents older than the TTL of their collection are removed.
TTLMonitor ==
  LET expired == { d \in codes : now > d.created + ttlIndex(d.role) } IN
  /\ expired # {}
  /\ codes' = codes \ expired
  /\ UNCHANGED asyncVars
  /\ UNCHANGED <<now, ticks, nextCode, issued, nextJti, queue, hs, consumed,
                 delFailed, tgOk>>

\* ----------------------------------------------------------------------
\* RPC: ActivationCode
\* ----------------------------------------------------------------------
ActivationCodeOutcome(md, did, role, storeOk) ==
  LET a == authenticate(md, TRUE, now) IN
  IF roleRejected(role) THEN Outcome("InvalidRequest", "role")
  ELSE IF role = "agent" /\ a.code # "OK" THEN Outcome(a.code, a.at)
  ELSE IF role = "agent" /\ ~authorize(a.token, "/activation_code/agent", "create")
    THEN Outcome("Unauthorized", "authorize")
  ELSE IF ~didParse(did) THEN Outcome("InvalidRequest", "didParse")
  ELSE IF ~storeOk THEN Outcome("Unknown", "insert")
  ELSE Done

ActivationCode(md, did, role, storeOk) ==
  /\ UNCHANGED asyncVars
  /\ UNCHANGED <<now, ticks, issued, nextJti, queue, hs, consumed, delFailed, tgOk>>
  /\ IF ActivationCodeOutcome(md, did, role, storeOk) = Done
       THEN /\ nextCode <= MaxCodes
            /\ Budget
            /\ nextCode' = nextCode + 1
            /\ codes' = codes \cup
                 {[role |-> role, did |-> did, code |-> nextCode, created |-> now]}
       ELSE UNCHANGED <<codes, nextCode>>

\* ----------------------------------------------------------------------
\* RPC: Credentials (one handler per request in flight)
\* ----------------------------------------------------------------------
\* The request up to the activation-code lookup: the role gate, then
\* AccessToken's identity and proof checks, then FindOne.
CredentialsOutcome(did, role, code, proof, storeOk) ==
  LET chk == AccessTokenChecks(did, code, proof) IN
  IF roleRejected(role) THEN Outcome("InvalidRequest", "role")
  ELSE IF chk # "nil" THEN Outcome("Unknown", chk)
  ELSE IF ~FindOne(did, role, code, storeOk) THEN Outcome("InvalidRequest", "code")
  ELSE Outcome("pending", "delete")

\* A new request runs in the first free handler.
Free(p) == hs[p].pc = "idle" /\ (p = "h2" => hs["h1"].pc # "idle")

\* The request arrives and runs up to the lookup of VerifyActivationCode,
\* the first access to shared state.  A request that is answered here
\* leaves no trace; one whose lookup succeeds goes on to the delete.
CredentialsFind(p, did, role, code, proof, storeOk) ==
  /\ Free(p)
  /\ UNCHANGED asyncVars
  /\ UNCHANGED <<now, ticks, codes, nextCode, issued, nextJti, queue, consumed, delFailed, tgOk>>
  /\ IF CredentialsOutcome(did, role, code, proof, storeOk).code = "pending"
       THEN hs' = [hs EXCEPT ![p] = [pc |-> "delete", did |-> did, role |-> role,
                                     code |-> code, afterOk |-> code \in consumed,
                                     proof |-> proof]]
       ELSE UNCHANGED hs

\* VerifyActivationCode, second half (the delete, then return true), and
\* the rest of AccessToken: the credentials response.
CredentialsDelete(p, storeOk) ==
  LET r == hs[p] IN
  /\ r.pc = "delete"
  /\ UNCHANGED asyncVars
  /\ UNCHANGED <<now, ticks, nextCode, queue, tgOk>>
  /\ codes' = DeleteMany(r.did, r.role, r.code, storeOk)
  /\ consumed' = consumed \cup {r.code}
  /\ delFailed' = IF storeOk THEN delFailed ELSE delFailed \cup {r.code}
  /\ hs' = [hs EXCEPT ![p] = Idle]
  /\ IF tgOk
       THEN Issue(getToken(r.did, r.role, now, nextJti), "rpc", GarbageString, EmptyCode)
       ELSE UNCHANGED <<issued, nextJti>>

\* ----------------------------------------------------------------------
\* The register command of the server binary: AccessToken(req, false)
\* ----------------------------------------------------------------------
RegisterOutcome(did, role, code, proof) ==
  LET chk == AccessTokenChecks(did, code, proof) IN
  IF ~didParse(did) THEN Outcome("error", "didParse")
  ELSE IF chk # "nil" THEN Outcome("error", chk)
  ELSE IF ~tgOk THEN Outcome("error", "token")
  ELSE Done

Register(did, role, code, proof) ==
  /\ UNCHANGED asyncVars
  /\ UNCHANGED <<now, ticks, codes, nextCode, queue, hs, consumed, delFailed, tgOk>>
  /\ IF RegisterOutcome(did, role, code, proof) = Done
       THEN Issue(getToken(did, role, now, nextJti), "local", GarbageString, EmptyCode)
       ELSE UNCHANGED <<issued, nextJti>>

\* ----------------------------------------------------------------------
\* RPC: RenewCredentials
\* ----------------------------------------------------------------------
\* The comparison reduced to its empty-code half.
refreshCodeRejectedEmptyOnly(token, refreshCode) ==
  getRefreshCode(hashKey, token) = EmptyCode

\* A comparison that also refuses a token that has been renewed before.
refreshCodeRejectedOnceUsed(token, refreshCode) ==
  LET cc == getRefreshCode(hashKey, token) IN
  cc = EmptyCode \/ cc # refreshCode \/ \E c \in issued : c.from = token

\* Server.RenewToken, the refresh-code comparison.
refreshCodeRejected(token, refreshCode) ==
  LET cc == getRefreshCode(hashKey, token) IN
  cc = EmptyCode \/ cc # refreshCode

RenewCredentialsOutcome(md, refreshCode) ==
  LET a == authenticate(md, FALSE, now) IN
  IF a.code # "OK" THEN Outcome(a.code, a.at)
  ELSE IF ~authorize(a.token, "/credentials", "renew")
    THEN Outcome("Unauthorized", "authorize")
  ELSE IF refreshCodeRejected(a.token, refreshCode)
    THEN Outcome("InvalidRequest", "refresh")
  ELSE IF ~tokenDecode(a.token).ok THEN Outcome("Unauthenticated", "decode")
  ELSE IF ~tgOk THEN Outcome("Unknown", "token")
  ELSE Done

\* The provenance of the credential a presented token belongs to.
RootOf(token) ==
  IF \E c \in issued : c.token = token
    THEN (CHOOSE c \in issued : c.token = token).root
    ELSE "none"

\* A renewal that falls back to the "user" role.
RenewedCredentialAsUser(md) ==
  getToken(tokenDecode(md[1].tok).DID, "user", now, nextJti)

\* The credential a renewal of the token in md returns.
RenewedCredential(md) ==
  LET data == tokenDecode(md[1].tok) IN
  getToken(data.DID, data.Role, now, nextJti)

RenewCredentials(md, refreshCode) ==
  /\ UNCHANGED asyncVars
  /\ UNCHANGED <<now, ticks, codes, nextCode, queue, hs, consumed, delFailed, tgOk>>
  /\ IF RenewCredentialsOutcome(md, refreshCode) = Done
       THEN Issue(RenewedCredential(md), RootOf(md[1].tok), md[1].tok, refreshCode)
       ELSE UNCHANGED <<issued, nextJti>>

\* ----------------------------------------------------------------------
\* RPC: Record
\* ----------------------------------------------------------------------
\* A message whose "did" header is taken from the first record of the
\* request.
TaskMessageFromPayload(token, req) ==
  [type |-> "ct19.location_record",
   did |-> IF req = <<>> THEN tokenDecode(token).DID ELSE req[1].did,
   len |-> Len(req), body |-> req, timestamp |-> now, by |-> token]

\* The message LocationRecord publishes for the request req presented with
\* token: the "did" header is the DID claim of the token and the body is
\* the marshalled request, and the timestamp is the server's time.Now().
\* by is no part of the message: it keeps the token of the request for the
\* properties.
TaskMessage(token, req) ==
  [type |-> "ct19.location_record", did |-> tokenDecode(token).DID,
   len |-> Len(req), body |-> req, timestamp |-> now, by |-> token]

\* Publisher.Push with every failed call repeated once.
PushRetrying(attempts) ==
  IF attempts[1] = "err" THEN attempts[2] ELSE attempts[1]

\* srv.pub.Push as LocationRecord calls it: one call, whose answer is the
\* broker's answer to the first attempt.  "ok" is (true, nil): the broker
\* took the message; "nack" is (false, nil): it did not; "err" is an error.
Push(attempts) == attempts[1]

\* LocationRecord refusing a batch of MaxRecords records as well.
LocationRecordOutcomeOffByOne(token, n, attempts) ==
  IF n >= MaxRecords THEN Outcome("InvalidRequest", "size")
  ELSE IF ~tokenDecode(token).ok THEN Outcome("Unauthenticated", "decode")
  ELSE IF Push(attempts) = "err" THEN Outcome("Unavailable", "publish")
  ELSE IF Push(attempts) = "nack" THEN Outcome("OK", "unconfirmed")
  ELSE Done

\* Server.LocationRecord, after authentication and authorization.
LocationRecordOutcome(token, n, attempts) ==
  IF n > MaxRecords THEN Outcome("InvalidRequest", "size")
  ELSE IF ~tokenDecode(token).ok THEN Outcome("Unauthenticated", "decode")
  ELSE IF Push(attempts) = "err" THEN Outcome("Unavailable", "publish")
  ELSE IF Push(attempts) = "nack" THEN Outcome("OK", "unconfirmed")
  ELSE Done

\* Record with the size check moved in front of authentication.
RecordOutcomeSizeFirst(md, n, attempts) ==
  LET a == authenticate(md, TRUE, now) IN
  IF n > MaxRecords THEN Outcome("InvalidRequest", "size")
  ELSE IF a.code # "OK" THEN Outcome(a.code, a.at)
  ELSE IF ~authorize(a.token, "/record", "create")
    THEN Outcome("Unauthorized", "authorize")
  ELSE LocationRecordOutcome(a.token, n, attempts)

RecordOutcome(md, n, attempts) ==
  LET a == authenticate(md, TRUE, now) IN
  IF a.code # "OK" THEN Outcome(a.code, a.at)
  ELSE IF ~authorize(a.token, "/record", "create")
    THEN Outcome("Unauthorized", "authorize")
  ELSE LocationRecordOutcome(a.token, n, attempts)

\* Record writing the records of an accepted request to the store itself.
RecordSaving(md, req, attempts) ==
  /\ UNCHANGED <<handled, acks, nacks, wlog, publishes, worker, subs, consuming, tasks, inflight>>
  /\ UNCHANGED <<loop, ctxDone, closing>>
  /\ UNCHANGED <<now, ticks, codes, nextCode, issued, nextJti, hs, consumed, delFailed, tgOk>>
  /\ IF RecordOutcome(md, Len(req), attempts) = Done
       THEN /\ Len(queue) < MaxQueue
            /\ Budget
            /\ queue' = Append(queue, TaskMessage(md[1].tok, req))
            /\ inserts' = Append(inserts, [id |-> 0, records |-> req])
       ELSE UNCHANGED <<queue, inserts>>

\* Record for a request whose records are req.
Record(md, req, attempts) ==
  /\ UNCHANGED asyncVars
  /\ UNCHANGED <<now, ticks, codes, nextCode, issued, nextJti, hs, consumed, delFailed, tgOk>>
  /\ IF RecordOutcome(md, Len(req), attempts) = Done
       THEN /\ Len(queue) < MaxQueue
            /\ Budget
            /\ queue' = Append(queue, TaskMessage(md[1].tok, req))
       ELSE UNCHANGED queue

\* ----------------------------------------------------------------------
\* Time
\* ----------------------------------------------------------------------
Tick(d) ==
  /\ ticks < MaxTicks
  /\ Budget
  /\ ticks' = ticks + 1
  /\ now' = now + d
  /\ UNCHANGED asyncVars
  /\ UNCHANGED <<codes, nextCode, issued, nextJti, queue, hs, consumed, delFailed, tgOk>>

\* ----------------------------------------------------------------------
\* Location records (protov1.LocationRecord, validateRecord)
\* ----------------------------------------------------------------------
\* Coordinates are counted in steps of a tenth of the sixth decimal place;
\* Finer is the number of steps in one unit of that place.
Finer == 10

\* fmt.Sprintf("%f", x): the sign and the value rounded to six decimal
\* places.
SprintfF(x) ==
  LET m == IF x < 0 THEN 0 - x ELSE x IN
  <<IF x < 0 THEN "-" ELSE "", (2 * m + Finer) \div (2 * Finer)>>

\* fmt.Sprintf("%d", n): the decimal digits of n.
SprintfD(n) == <<IF n < 0 THEN "-" ELSE "", IF n < 0 THEN 0 - n ELSE n>>

\* LocationRecord.GenerateHash: SHA256(did|lat|lng|alt|timestamp) over the
\* formatted fields.
GenerateHash(r) ==
  <<r.did, SprintfF(r.lat), SprintfF(r.lng), SprintfF(r.alt), SprintfD(r.ts)>>

\* A record of did at (lat, lng) and time ts, whose hash field was computed
\* with time hashTs and whose proof over the hash field names a key of did
\* and was made with a key of signer.
LocationRecord(did, lat, lng, ts, hashTs, signer) ==
  LET h == GenerateHash([did |-> did, lat |-> lat, lng |-> lng, alt |-> 0,
                          ts |-> hashTs]) IN
  [did |-> did, lat |-> lat, lng |-> lng, alt |-> 0, ts |-> ts,
   hash |-> h, proof |-> Proof(did, signer, h)]

\* validateRecord without the upper bound of the timestamp.
validateRecordNoUpperBound(id, r, t) ==
  IF r.did # id.did THEN FALSE
  ELSE IF r.lat = 0 \/ r.lng = 0 THEN FALSE
  ELSE IF r.ts = 0 THEN FALSE
  ELSE IF GenerateHash(r) # r.hash THEN FALSE
  ELSE IF VerifySignature(id, r.hash, r.proof) # "nil" THEN FALSE
  ELSE TRUE

\* validateRecord, with t the value of time.Now().Unix().
validateRecord(id, r, t) ==
  IF r.did # id.did THEN FALSE
  ELSE IF r.lat = 0 \/ r.lng = 0 THEN FALSE
  ELSE IF r.ts = 0 \/ r.ts > t THEN FALSE
  ELSE IF GenerateHash(r) # r.hash THEN FALSE
  ELSE IF VerifySignature(id, r.hash, r.proof) # "nil" THEN FALSE
  ELSE TRUE

\* The validation loop stopping at the first record that fails.
ValidRecordsUntilInvalid(id, recs, t) ==
  LET F[i \in 0..Len(recs)] ==
        IF i = 0 THEN <<>>
        ELSE IF Len(F[i - 1]) = i - 1 /\ validateRecord(id, recs[i], t)
          THEN Append(F[i - 1], recs[i])
          ELSE F[i - 1]
  IN F[Len(recs)]

\* The validation loop of Worker.locationRecord: the records that pass are
\* appended one by one.
ValidRecords(id, recs, t) ==
  LET F[i \in 0..Len(recs)] ==
        IF i = 0 THEN <<>>
        ELSE IF validateRecord(id, recs[i], t)
          THEN Append(F[i - 1], recs[i])
          ELSE F[i - 1]
  IN F[Len(recs)]

\* A bulk insert that takes an empty list of documents.
LocationRecordsAcceptingEmpty(records, storeOk) == storeOk

\* Handler.LocationRecords: InsertMany refuses an empty list of documents.
LocationRecords(records, storeOk) == records # <<>> /\ storeOk

\* ----------------------------------------------------------------------
\* Deliveries of the "tasks" queue
\* ----------------------------------------------------------------------
\* A delivery: its type, whether it has a "did" header and of which type,
\* the header's value, whether its body decodes, and the records of the
\* decoded body.
Delivery(type, header, did, body, batch) ==
  [type |-> type, header |-> header, did |-> did, body |-> body, batch |-> batch]

Good(lat)  == LocationRecord("did:a", lat * Finer, Finer, 1, 1, "did:a")
WrongDID   == LocationRecord("did:b", Finer, Finer, 1, 1, "did:b")
ZeroLat    == LocationRecord("did:a", 0, Finer, 1, 1, "did:a")
ZeroLng    == LocationRecord("did:a", Finer, 0, 1, 1, "did:a")
Future     == LocationRecord("did:a", Finer, Finer, now + 3600, now + 3600, "did:a")
ZeroTime   == LocationRecord("did:a", Finer, Finer, 0, 0, "did:a")
Negative   == LocationRecord("did:a", Finer, Finer, 0 - 5, 0 - 5, "did:a")
BadHash    == LocationRecord("did:a", Finer, Finer, 1, 0 - 1, "did:a")
BadProof   == LocationRecord("did:a", Finer, Finer, 1, 1, "did:b")
\* A record one step north of Good(1).
Nearby     == LocationRecord("did:a", Finer + 1, Finer, 1, 1, "did:a")

\* A record stamped Ahead seconds after the start of the behaviour.
Ahead == 3600
Later      == LocationRecord("did:a", Finer, Finer, 1 + Ahead, 1 + Ahead, "did:a")

\* The batches that arrive.
Batches ==
  { <<>>,
    <<Good(1), WrongDID, Good(2)>>,
    <<Future, Good(1), ZeroTime>>,
    <<Negative, BadHash>>,
    <<WrongDID, ZeroTime, BadHash>>,
    <<BadProof, ZeroLat, ZeroLng, Good(1), Nearby>> }

\* A request of n records; the server looks at none of them, and they
\* stand as their places in the request.
Request(n) == [i \in 1..n |-> i]

\* The requests at the size limit and one above it.
Requests == {Request(MaxRecords), Request(MaxRecords + 1)}

\* The requests and the credentials of the clients of the pipeline: an
\* issued credential, a self-made one, and none.
PipelineBatches ==
  { <<>>, <<Good(1), WrongDID, Good(2)>>, <<Negative, BadHash>>, <<Later, Good(1)>> }

Submitters ==
  { <<>> } \cup { <<BearerHeader(t)>> : t \in IssuedTokens \cup {Forged(BaseClaims)} }

Deliveries ==
  { Delivery("ct19.location_record", "string", "did:a", "ok", b) : b \in Batches }
    \cup
  { Delivery("ct19.location_record", "absent", "", "ok", <<Good(1)>>),
    Delivery("ct19.location_record", "number", "", "ok", <<Good(1)>>),
    Delivery("ct19.location_record", "string", "did:a", "garbage", <<>>),
    Delivery("ct19.location_record", "string", Unpublished, "ok", <<Good(1)>>),
    Delivery("ct19.new_did", "absent", "", "ok", <<>>),
    Delivery("ct19.new_did", "absent", "", "garbage", <<>>),
    Delivery("ct19.unknown", "absent", "", "ok", <<>>) }

\* ----------------------------------------------------------------------
\* Worker
\* ----------------------------------------------------------------------
LogLine(id, level, text) == [id |-> id, level |-> level, text |-> text]

\* The handlers run while the process is alive and handleTasks reads the
\* deliveries channel of an open subscription.
Delivering ==
  /\ worker = "running"
  /\ consuming
  /\ Len(handled) < MaxDeliveries

\* A handled delivery: the message, the path its handler took, the records
\* the handler gave to the store, and the worker's time.Now() as the
\* handler ran.
Handled(msg, path, records) ==
  [msg |-> msg, path |-> path, records |-> records, at |-> now]

\* locationRecord that returns a delivery to the queue when the store fails.
locationRecordNacks(path) == IF path = "store error" THEN "nack" ELSE "ack"

\* The acknowledgement the deferred function of locationRecord sends.
locationRecordAcks(path) == "ack"

\* The path Worker.locationRecord takes through a delivery.
locationRecordPath(msg, storeOk) ==
  IF msg.header = "absent" THEN "no header"
  ELSE IF msg.body # "ok" THEN "bad body"
  ELSE IF msg.header # "string" THEN "panic"
  ELSE IF ~ResolveDID(msg.did).ok THEN "unresolved"
  ELSE IF ~LocationRecords(ValidRecords(ResolveDID(msg.did), msg.batch, now), storeOk)
    THEN "store error"
  ELSE "stored"

locationRecordLog(id, path) ==
  CASE path = "no header"   -> <<LogLine(id, "error", "record without DID")>>
    [] path = "bad body"    -> <<LogLine(id, "error", "invalid record contents")>>
    [] path = "unresolved"  -> <<LogLine(id, "error", "invalid DID")>>
    [] path = "store error" -> <<LogLine(id, "error", "failed to save record")>>
    [] path = "stored"      -> <<LogLine(id, "info", "location record processed")>>
    [] OTHER                -> <<>>

\* Worker.locationRecord from its first statement to its return: the
\* validation, the store write, the log line, and the panic of the type
\* assertion.
locationRecordRun(msg, storeOk) ==
  LET id   == Len(handled) + 1
      path == locationRecordPath(msg, storeOk)
      given == IF path \in {"stored", "store error"}
                 THEN ValidRecords(ResolveDID(msg.did), msg.batch, now)
                 ELSE <<>>
  IN /\ handled' = Append(handled, Handled(msg, path, given))
     /\ wlog' = wlog \o locationRecordLog(id, path)
     /\ inserts' =
          IF path = "stored"
            THEN Append(inserts, [id |-> id, records |-> given])
            ELSE inserts
     /\ worker' = IF path = "panic" THEN "panicked" ELSE worker

\* The deferred function of Worker.locationRecord, run as the handler of
\* delivery id returns or panics.
locationRecordDeferred(id, path) ==
  /\ acks'  = IF locationRecordAcks(path) = "ack" THEN Append(acks, id) ELSE acks
  /\ nacks' = IF locationRecordAcks(path) = "nack" THEN Append(nacks, id) ELSE nacks

\* Worker.locationRecord, from the receipt of the delivery to its
\* acknowledgement.
locationRecord(msg, storeOk) ==
  /\ Delivering
  /\ msg.type = "ct19.location_record"
  /\ locationRecordRun(msg, storeOk)
  /\ locationRecordDeferred(Len(handled) + 1, locationRecordPath(msg, storeOk))
  /\ UNCHANGED <<publishes, subs, consuming, tasks, inflight>>
  /\ UNCHANGED closeVars
  /\ UNCHANGED serverVars

\* Worker.publishDID: both decoding failures are logged and the publish
\* goroutine is started all the same.
publishDID(msg) ==
  LET id == Len(handled) + 1 IN
  /\ Delivering
  /\ msg.type = "ct19.new_did"
  /\ handled' = Append(handled, Handled(msg, IF msg.body = "ok" THEN "publish" ELSE "bad document", <<>>))
  /\ acks' = Append(acks, id)
  /\ wlog' = IF msg.body = "ok" THEN wlog
             ELSE wlog \o << LogLine(id, "warning", "invalid message contents"),
                             LogLine(id, "warning", "invalid message contents") >>
  /\ publishes' = publishes \cup {id}
  /\ UNCHANGED <<nacks, inserts, worker, subs, consuming, tasks, inflight>>
  /\ UNCHANGED closeVars
  /\ UNCHANGED serverVars

\* Worker.handleTasks, the default case of the switch.
handleTasksDefault(msg) ==
  LET id == Len(handled) + 1 IN
  /\ Delivering
  /\ msg.type \notin {"ct19.location_record", "ct19.new_did"}
  /\ handled' = Append(handled, Handled(msg, "ignored", <<>>))
  /\ wlog' = Append(wlog, LogLine(id, "warning", "invalid message type"))
  /\ UNCHANGED <<acks, nacks, inserts, publishes, worker, subs, consuming, tasks, inflight>>
  /\ UNCHANGED closeVars
  /\ UNCHANGED serverVars

\* Worker.eventLoop, the Ready case: Subscribe, then handleTasks on the
\* channel it returned; after a failed Subscribe that channel is nil and
\* the goroutine reading it blocks for good.
eventLoopSubscribe(ok) ==
  /\ worker = "running"
  /\ loop["worker"] = "running"
  /\ closing["worker"] \in {"no", "halted"}
  /\ subs < MaxSubs
  /\ subs' = subs + 1
  /\ consuming' = (consuming \/ ok)
  /\ tasks' = Append(tasks, IF ok THEN "ranging" ELSE "blocked")
  /\ wlog' = IF ok THEN wlog
             ELSE Append(wlog, LogLine(0, "warning", "failed to open tasks subscription"))
  /\ UNCHANGED <<handled, acks, nacks, inserts, publishes, worker, inflight>>
  /\ UNCHANGED closeVars
  /\ UNCHANGED serverVars

\* ----------------------------------------------------------------------
\* The worker step by step, on the deliveries of the server's messages
\* ----------------------------------------------------------------------
\* The delivery of a message the server published.
ServerDelivery(m) ==
  [type |-> m.type, header |-> "string", did |-> m.did, body |-> "ok",
   batch |-> m.body, timestamp |-> m.timestamp, by |-> m.by]

\* A delivery in the hands of handleTasks: how far its handler has got,
\* how many times the records of its message have been saved, and whether
\* the broker delivers it again.
InFlight(msg, stage, saved, redelivered) ==
  [msg |-> msg, stage |-> stage, saved |-> saved, redelivered |-> redelivered]

\* Worker.handleTasks, "for msg := range deliveries": the loop takes a
\* delivery only when the handler of the one before has returned, since
\* the handlers are called and not started as goroutines.  A delivery the
\* broker requeued is delivered again first.
handleTasksReceive ==
  /\ Delivering
  /\ \/ /\ inflight = <<>>
        /\ queue # <<>>
        /\ inflight' = <<InFlight(ServerDelivery(Head(queue)), "received", 0, FALSE)>>
        /\ queue' = Tail(queue)
     \/ /\ inflight # <<>>
        /\ inflight[1].stage = "requeued"
        /\ inflight' = <<[inflight[1] EXCEPT !.stage = "received", !.redelivered = TRUE]>>
        /\ UNCHANGED queue
  /\ UNCHANGED <<handled, acks, nacks, inserts, wlog, publishes, worker, subs, consuming, tasks>>
  /\ UNCHANGED closeVars
  /\ UNCHANGED <<now, ticks, codes, nextCode, issued, nextJti, hs, consumed, delFailed, tgOk>>

\* Worker.locationRecord up to its return statement, for the delivery in
\* flight.  A store whose connection Close has closed saves nothing.
locationRecordReturn(storeOk) ==
  /\ worker = "running"
  /\ inflight # <<>>
  /\ inflight[1].stage = "received"
  /\ storeOk => closing["worker"] # "storeClosed"
  /\ locationRecordRun(inflight[1].msg, storeOk)
  /\ inflight' = <<[inflight[1] EXCEPT
                     !.stage = "returning",
                     !.saved = IF locationRecordPath(inflight[1].msg, storeOk) = "stored"
                                 THEN @ + 1 ELSE @]>>
  /\ UNCHANGED <<acks, nacks, publishes, subs, consuming, tasks>>
  /\ UNCHANGED closeVars
  /\ UNCHANGED serverVars

\* The deferred msg.Ack(false) of the delivery in flight: it runs after the
\* return statement, so after the store write.
locationRecordAck ==
  /\ worker = "running"
  /\ inflight # <<>>
  /\ inflight[1].stage = "returning"
  /\ locationRecordDeferred(Len(handled), handled[Len(handled)].path)
  /\ inflight' = <<>>
  /\ UNCHANGED <<handled, inserts, wlog, publishes, worker, subs, consuming, tasks>>
  /\ UNCHANGED closeVars
  /\ UNCHANGED serverVars

\* The worker process is killed while a delivery is unacknowledged: the
\* broker requeues the delivery, and the process that replaces it
\* (NewWorker) subscribes to the queue again.
Crash ==
  /\ worker = "running"
  /\ inflight # <<>>
  /\ inflight[1].stage \in {"received", "returning"}
  /\ inflight' = <<[inflight[1] EXCEPT !.stage = "requeued"]>>
  /\ UNCHANGED <<handled, acks, nacks, inserts, wlog, publishes, worker, subs, consuming, tasks>>
  /\ UNCHANGED closeVars
  /\ UNCHANGED serverVars

\* Worker.handleTasks, the end of "for msg := range deliveries": goroutine
\* i leaves the loop and returns once its deliveries channel is closed with
\* the consumer and no handler is running.  The range over the nil channel
\* of a failed Subscribe never ends.
handleTasksReturn(i) ==
  /\ worker = "running"
  /\ tasks[i] = "ranging"
  /\ ~consuming
  /\ inflight = <<>>
  /\ tasks' = [tasks EXCEPT ![i] = "returned"]
  /\ UNCHANGED <<handled, acks, nacks, inserts, wlog, publishes, worker, subs, consuming,
                 inflight>>
  /\ UNCHANGED closeVars
  /\ UNCHANGED serverVars

\* ----------------------------------------------------------------------
\* Shutdown (Server.Close, Worker.Close and the two event loops)
\* ----------------------------------------------------------------------
\* The goroutines of a component run while its process does; an unrecovered
\* panic in a handler ends the worker's process.
Alive(c) == c = "worker" => worker = "running"

\* eventLoop returns on a cancelled context; the server's also returns
\* when the channel of returned messages is closed with its publisher.
eventLoopReturn(c) ==
  /\ Alive(c)
  /\ loop[c] = "running"
  /\ \/ ctxDone[c]
     \/ c = "server" /\ closing[c] \in {"queueClosed", "storeClosed"}
  /\ loop' = [loop EXCEPT ![c] = "returned"]
  /\ UNCHANGED <<ctxDone, closing>>
  /\ UNCHANGED workerVars
  /\ UNCHANGED serverVars

\* Close, first two statements: halt() cancels the context, and the
\* receive from ctx.Done() that follows returns at once.
CloseHalt(c) ==
  /\ Alive(c)
  /\ closing[c] = "no"
  /\ ctxDone' = [ctxDone EXCEPT ![c] = TRUE]
  /\ closing' = [closing EXCEPT ![c] = "halted"]
  /\ UNCHANGED loop
  /\ UNCHANGED workerVars
  /\ UNCHANGED serverVars

\* Close, third statement: srv.pub.Close() or w.sub.Close().
CloseQueue(c) ==
  /\ Alive(c)
  /\ closing[c] = "halted"
  /\ closing' = [closing EXCEPT ![c] = "queueClosed"]
  /\ consuming' = IF c = "worker" THEN FALSE ELSE consuming
  /\ UNCHANGED <<loop, ctxDone>>
  /\ UNCHANGED <<handled, acks, nacks, inserts, wlog, publishes, worker, subs, tasks,
                 inflight>>
  /\ UNCHANGED serverVars

\* Close, last statement: store.Close().
CloseStore(c) ==
  /\ Alive(c)
  /\ closing[c] = "queueClosed"
  /\ closing' = [closing EXCEPT ![c] = "storeClosed"]
  /\ UNCHANGED <<loop, ctxDone>>
  /\ UNCHANGED workerVars
  /\ UNCHANGED serverVars

\* ----------------------------------------------------------------------
\* Specification
\* ----------------------------------------------------------------------
Next ==
  \/ \E did \in CodeDIDs, role \in RoleStrings, storeOk \in BOOLEAN :
       \E md \in (IF role = "agent" THEN Metadata ELSE {<<>>}) :
          ActivationCode(md, did, role, storeOk)
  \/ \E p \in Handlers, did \in DIDStrings, role \in RoleStrings, code \in CodeIds :
       \E proof \in Proofs(did, code), storeOk \in BOOLEAN :
          CredentialsFind(p, did, role, code, proof, storeOk)
  \/ \E p \in Handlers, storeOk \in BOOLEAN : CredentialsDelete(p, storeOk)
  \/ \E did \in RegisterDIDs, role \in RegisterRoles :
       \E proof \in Proofs(did, 1) : Register(did, role, 1, proof)
  \/ \E md \in Metadata, rc \in RefreshCodes : RenewCredentials(md, rc)
  \/ \E md \in Metadata, req \in Requests, attempts \in PushAttempts :
       Record(md, req, attempts)
  \/ TTLMonitor
  \/ Tick(Expiration + 1)

Spec == Init /\ [][Next]_vars

\* The worker process, the two event loops and the two Close calls.
AsyncNext ==
  \/ \E msg \in Deliveries, storeOk \in BOOLEAN : locationRecord(msg, storeOk)
  \/ \E msg \in Deliveries : publishDID(msg)
  \/ \E msg \in Deliveries : handleTasksDefault(msg)
  \/ \E ok \in BOOLEAN : eventLoopSubscribe(ok)
  \/ \E c \in Components : eventLoopReturn(c)
  \/ \E c \in Components : CloseHalt(c)
  \/ \E c \in Components : CloseQueue(c)
  \/ \E c \in Components : CloseStore(c)

\* The worker starts beside a server whose token generator was set up.
AsyncInit == Init /\ tgOk

AsyncSpec == AsyncInit /\ [][AsyncNext]_vars

\* The path of a record batch: the server's Record, the queue, and the
\* worker taking, handling and acknowledging one delivery at a time.
PipelineNext ==
  \/ \E proof \in Proofs("did:a", 1) : Register("did:a", "admin", 1, proof)
  \/ \E md \in Submitters, req \in PipelineBatches, attempts \in PushAttempts :
       Record(md, req, attempts)
  \/ eventLoopSubscribe(TRUE)
  \/ handleTasksReceive
  \/ \E storeOk \in BOOLEAN : locationRecordReturn(storeOk)
  \/ locationRecordAck
  \/ Crash
  \/ Tick(Ahead)

PipelineSpec == AsyncInit /\ [][PipelineNext]_vars

\* The server and the worker from start to shutdown: record batches go
\* through the queue to the step-by-step handler while either Close runs.
\* A publisher that Close has closed takes no message.
ShutdownBatches == { <<Good(1), WrongDID, Good(2)>> }

ShutdownNext ==
  \/ \E proof \in Proofs("did:a", 1) : Register("did:a", "admin", 1, proof)
  \/ \E md \in Submitters, req \in ShutdownBatches :
       /\ closing["server"] \in {"no", "halted"}
       /\ Record(md, req, <<"ok", "ok">>)
  \/ \E ok \in BOOLEAN : eventLoopSubscribe(ok)
  \/ handleTasksReceive
  \/ \E storeOk \in BOOLEAN : locationRecordReturn(storeOk)
  \/ locationRecordAck
  \/ \E i \in 1..Len(tasks) : handleTasksReturn(i)
  \/ \E c \in Components : eventLoopReturn(c)
  \/ \E c \in Components : CloseHalt(c)
  \/ \E c \in Components : CloseQueue(c)
  \/ \E c \in Components : CloseStore(c)

ShutdownSpec == AsyncInit /\ [][ShutdownNext]_vars

\* The scheduler runs every goroutine that can take a step: an event loop
\* whose context is cancelled returns, a Close that has started goes
\* through its statements, a handler that has a delivery finishes, and a
\* handleTasks goroutine whose channel is closed leaves its loop.
ShutdownFairness ==
  /\ \A c \in Components :
       /\ WF_vars(eventLoopReturn(c))
       /\ WF_vars(CloseQueue(c))
       /\ WF_vars(CloseStore(c))
  /\ WF_vars(\E storeOk \in BOOLEAN : locationRecordReturn(storeOk))
  /\ WF_vars(locationRecordAck)
  /\ WF_vars(\E i \in 1..Len(tasks) : handleTasksReturn(i))

ShutdownLive == ShutdownSpec /\ ShutdownFairness

\* ----------------------------------------------------------------------
\* Properties
\* ----------------------------------------------------------------------
\* A metadata value that carries a token string jwx.Parse accepts.
Carries(md) == Len(md) = 1 /\ md[1].bearer /\ md[1].fields >= 2 /\ md[1].tok.parses

\* A token whose expiration time has passed.
Expired(tok) == now > tok.claims.exp

\* A token that is not what the server signed: the signature is not the
\* master key's over these claims, or issuer or audience is not the server.
Untrusted(tok) ==
  \/ ~SignedByMaster(tok)
  \/ tok.claims.iss # ServerName
  \/ ServerName \notin tok.claims.aud

\* The role of an issued credential.
RoleOf(c) == tokenDecode(c.token).Role
DIDOf(c)  == tokenDecode(c.token).DID

\* Credentials the Credentials RPC returned (renewals not counted).
FromCodes == { c \in issued : c.root = "rpc" /\ c.from = GarbageString }

\* C1: of the Credentials requests racing on one stored activation code, no
\* two are past a successful lookup at once, so no two of them get true from
\* VerifyActivationCode.
C1_OneWinner ==
  \A p, q \in Handlers :
     (p # q /\ hs[p].pc = "delete" /\ hs[q].pc = "delete")
       => <<hs[p].did, hs[p].role, hs[p].code>> # <<hs[q].did, hs[q].role, hs[q].code>>

\* C2: once VerifyActivationCode has returned true for a code, no later call
\* for that code finds it again, whatever the delete did.
C2_UsableOnce ==
  \A p \in Handlers : hs[p].pc = "delete" => ~hs[p].afterOk

\* C3: a request carrying a token the server did not sign, or one whose
\* issuer or audience is not the server, changes nothing: Record publishes
\* no message, RenewCredentials returns no credential, ActivationCode for
\* an agent stores no code.
C3_UntrustedNoEffect ==
  [][\A md \in Metadata :
       (Carries(md) /\ Untrusted(md[1].tok)) =>
          /\ \A req \in Requests, attempts \in PushAttempts :
                Record(md, req, attempts) => UNCHANGED queue
          /\ \A rc \in RefreshCodes :
                RenewCredentials(md, rc) => UNCHANGED issued
          /\ \A did \in CodeDIDs, storeOk \in BOOLEAN :
                ActivationCode(md, did, "agent", storeOk) => UNCHANGED codes]_vars

\* C4: a renewal request whose token authenticates and is authorized but
\* whose refresh code differs from the one recomputed from the token is
\* answered InvalidRequest, and every credential a renewal returned was
\* requested with the refresh code of the token it renews.
C4_RefreshMismatch ==
  /\ \A md \in Metadata, rc \in RefreshCodes :
        ( /\ authenticate(md, FALSE, now).code = "OK"
          /\ authorize(md[1].tok, "/credentials", "renew")
          /\ rc # getRefreshCode(hashKey, md[1].tok) )
        => RenewCredentialsOutcome(md, rc) = Outcome("InvalidRequest", "refresh")
  /\ \A c \in issued :
        c.from # GarbageString => c.with = getRefreshCode(hashKey, c.from)

C4_Witness ==
  \E c \in issued, d \in issued :
     /\ d.from = c.token
     /\ d.with = c.refresh
     /\ authorize(c.token, "/credentials", "renew")
     /\ RenewCredentialsOutcome(<<BearerHeader(c.token)>>, JunkCode)
          = Outcome("InvalidRequest", "refresh")
     /\ RenewCredentialsOutcome(<<BearerHeader(c.token)>>, d.refresh)
          = Outcome("InvalidRequest", "refresh")

C7_RoleGate ==
  /\ \A role \in RoleStrings :
        (role = "admin" \/ role \notin {"user", "agent", "admin"}) =>
           /\ \A did \in DIDStrings, code \in CodeIds, storeOk \in BOOLEAN :
                 \A proof \in Proofs(did, code) :
                    CredentialsOutcome(did, role, code, proof, storeOk)
                      = Outcome("InvalidRequest", "role")
           /\ \A md \in Metadata, did \in DIDStrings, storeOk \in BOOLEAN :
                 ActivationCodeOutcome(md, did, role, storeOk)
                   = Outcome("InvalidRequest", "role")
  /\ \A d \in codes : d.role \in {"user", "agent"}
  /\ \A c \in FromCodes : RoleOf(c) \in {"user", "agent"}

C7_Witness ==
  \E d \in codes, c \in issued :
     /\ RoleOf(c) = "admin"
     /\ d.did \in Resolvable
     /\ CredentialsOutcome(d.did, "user", d.code, Proof(d.did, d.did, d.code), TRUE)
          = Outcome("pending", "delete")
     /\ CredentialsOutcome(d.did, "guest", d.code, Proof(d.did, d.did, d.code), TRUE)
          = Outcome("InvalidRequest", "role")
     /\ ActivationCodeOutcome(<<BearerHeader(c.token)>>, d.did, "admin", TRUE)
          = Outcome("InvalidRequest", "role")

\* C8: every credential with the admin role was issued by the register
\* command or renews one that was; the Credentials RPC never gets as far
\* as the activation-code lookup for the admin role, and no activation
\* code for the admin role is stored.
C8_AdminOnlyLocal ==
  /\ \A c \in issued : RoleOf(c) = "admin" => c.root = "local"
  /\ \A d \in codes : d.role # "admin"
  /\ \A did \in DIDStrings, code \in CodeIds, storeOk \in BOOLEAN :
        \A proof \in Proofs(did, code) :
           CredentialsOutcome(did, "admin", code, proof, storeOk).code = "InvalidRequest"

C8_Witness ==
  \E c \in issued, d \in issued :
     /\ RoleOf(c) = "admin"
     /\ c.root = "local"
     /\ d.root = "rpc"
     /\ RoleOf(d) # "admin"

\* C9: a Credentials request that passes the role gate, resolves and proves
\* possession but names no stored code is answered InvalidRequest, and the
\* Credentials RPC has returned no more credentials than codes were
\* generated.
C9_CredentialsWithinCodes ==
  /\ \A did \in DIDStrings, role \in RoleStrings, code \in CodeIds :
        ( /\ ~roleRejected(role)
          /\ AccessTokenChecks(did, code, Proof(did, did, code)) = "nil"
          /\ Matching(did, role, code) = {} )
        => CredentialsOutcome(did, role, code, Proof(did, did, code), TRUE)
             = Outcome("InvalidRequest", "code")
  /\ Cardinality(FromCodes) <= nextCode - 1

\* C10: authorize allows exactly: the admin role everything; the user role
\* (/credentials, renew) and (/record, create); the agent role those two
\* and (/notification, create); every other request, every other role and
\* every token whose claims do not decode are denied.
Resources == {"/credentials", "/record", "/notification", "/activation_code/agent"}
Actions   == {"renew", "create", "delete"}

Allowed(role, res, act) ==
  \/ role = "admin"
  \/ /\ role \in {"user", "agent"}
     /\ <<res, act>> \in {<<"/credentials", "renew">>, <<"/record", "create">>}
  \/ role = "agent" /\ <<res, act>> = <<"/notification", "create">>

C10_AuthorizeTable ==
  \A t \in Presentable, res \in Resources, act \in Actions :
     authorize(t, res, act)
       <=> ( /\ IsJStr(t.claims.did)
             /\ IsJStr(t.claims.role)
             /\ Allowed(t.claims.role[2], res, act) )

C10_Witness ==
  \E c \in issued :
     /\ RoleOf(c) = "agent"
     /\ authorize(c.token, "/notification", "create")
     /\ ~authorize(c.token, "/activation_code/agent", "create")
     /\ \E t \in Presentable :
           ~IsJStr(t.claims.role) /\ ~authorize(t, "/credentials", "renew")

\* What ActivationCode answers, by role and credential: a user code needs
\* no credential; an agent code is refused Unauthenticated without a
\* credential and Unauthorized with a live credential of role user or agent.
ActivationCodeAnswers ==
  /\ \A md \in Metadata, did \in Resolvable :
        ActivationCodeOutcome(md, did, "user", TRUE) = Done
  /\ \A did \in DIDStrings, storeOk \in BOOLEAN :
        ActivationCodeOutcome(<<>>, did, "agent", storeOk).code = "Unauthenticated"
  /\ \A c \in issued, did \in DIDStrings, storeOk \in BOOLEAN :
        (~Expired(c.token) /\ RoleOf(c) \in {"user", "agent"}) =>
           ActivationCodeOutcome(<<BearerHeader(c.token)>>, did, "agent", storeOk)
             = Outcome("Unauthorized", "authorize")

\* C11: ActivationCode answers as above, and a step of ActivationCode for
\* an agent stores a code only when the request carries a token the server
\* issued, not expired, of a role the policy allows to create agent codes,
\* which is the admin role.
C11_AgentCodeNeedsAdmin ==
  /\ []ActivationCodeAnswers
  /\ [][\A md \in Metadata, did \in CodeDIDs, storeOk \in BOOLEAN :
          (ActivationCode(md, did, "agent", storeOk) /\ codes' # codes) =>
             /\ Carries(md)
             /\ md[1].tok \in IssuedTokens
             /\ ~Expired(md[1].tok)
             /\ tokenDecode(md[1].tok).Role = "admin"]_vars

\* Batch sizes around the limit.
BatchSizes == {0, 1, 99, 100, 101, 200}

\* C12: LocationRecord answers every batch of more than 100 records with
\* InvalidRequest at the size check, whatever the token and the broker;
\* no batch of 0 to 100 records fails the size check; and no message in
\* the queue carries more than 100 records.
C12_BatchLimit ==
  /\ \A t \in Presentable, n \in BatchSizes, attempts \in PushAttempts :
        /\ n > 100 =>
              LocationRecordOutcome(t, n, attempts) = Outcome("InvalidRequest", "size")
        /\ n <= 100 => LocationRecordOutcome(t, n, attempts).at # "size"
  /\ \A md \in Metadata, n \in BatchSizes, attempts \in PushAttempts :
        n > 100 => RecordOutcome(md, n, attempts).code # "OK"
  /\ \A i \in 1..Len(queue) : queue[i].len <= 100

C12_Witness ==
  \E c \in issued, i \in 1..Len(queue) :
     /\ queue[i].len = 100
     /\ queue[i].did = DIDOf(c)
     /\ RecordOutcome(<<BearerHeader(c.token)>>, 100, <<"ok", "ok">>) = Done
     /\ RecordOutcome(<<BearerHeader(c.token)>>, 101, <<"ok", "ok">>)
          = Outcome("InvalidRequest", "size")

\* C19: in every reachable state, a request that gets as far as the
\* publish step and whose first Push fails is answered Unavailable even
\* when a second attempt would succeed, and only a first Push the broker
\* took is answered ok; a step of Record whose first Push was not taken
\* leaves the queue unchanged, and a step that changes the queue appends
\* exactly one message.
C19_PublishOnce ==
  /\ [](\A md \in Metadata, n \in BatchLens, attempts \in PushAttempts :
          ( /\ authenticate(md, TRUE, now).code = "OK"
            /\ authorize(md[1].tok, "/record", "create")
            /\ n <= 100
            /\ tokenDecode(md[1].tok).ok ) =>
             /\ attempts[1] = "err" =>
                   RecordOutcome(md, n, attempts) = Outcome("Unavailable", "publish")
             /\ RecordOutcome(md, n, attempts) = Done <=> attempts[1] = "ok")
  /\ [][queue' # queue =>
          /\ Len(queue') = Len(queue) + 1
          /\ SubSeq(queue', 1, Len(queue)) = queue
          /\ \E md \in Metadata, req \in Requests, attempts \in PushAttempts :
                attempts[1] = "ok" /\ Record(md, req, attempts)]_vars

C19_Witness ==
  \E c \in issued, i \in 1..Len(queue) :
     /\ queue[i].did = DIDOf(c)
     /\ RecordOutcome(<<BearerHeader(c.token)>>, MaxRecords, <<"err", "ok">>)
          = Outcome("Unavailable", "publish")
     /\ RecordOutcome(<<BearerHeader(c.token)>>, MaxRecords, <<"nack", "ok">>)
          = Outcome("OK", "unconfirmed")

\* Whether the token of md may do action on resource (FALSE without a token).
MayDo(md, resource, action) == Carries(md) /\ authorize(md[1].tok, resource, action)

\* C20: in every reachable state, Record, RenewCredentials and
\* ActivationCode for an agent answer a request that fails authentication
\* with the authentication error, and one that authenticates but is not
\* authorized with Unauthorized, whatever the batch size, the broker, the
\* refresh code, the DID and the store; and a step that publishes a
\* message, returns a renewed credential or stores an agent code is the
\* step of a request that authenticated and was authorized.
C20_AuthBeforeLogic ==
  /\ [](\A md \in Metadata :
          LET a1 == authenticate(md, TRUE, now)
              a0 == authenticate(md, FALSE, now)
          IN /\ \A n \in BatchSizes, attempts \in PushAttempts :
                   RecordOutcome(md, n, attempts) =
                     IF a1.code # "OK" THEN Outcome(a1.code, a1.at)
                     ELSE IF ~MayDo(md, "/record", "create")
                       THEN Outcome("Unauthorized", "authorize")
                     ELSE LocationRecordOutcome(md[1].tok, n, attempts)
             /\ \A did \in DIDStrings, storeOk \in BOOLEAN :
                   /\ a1.code # "OK" =>
                         ActivationCodeOutcome(md, did, "agent", storeOk)
                           = Outcome(a1.code, a1.at)
                   /\ (a1.code = "OK" /\ ~MayDo(md, "/activation_code/agent", "create")) =>
                         ActivationCodeOutcome(md, did, "agent", storeOk)
                           = Outcome("Unauthorized", "authorize")
             /\ \A rc \in RefreshCodes :
                   /\ a0.code # "OK" =>
                         RenewCredentialsOutcome(md, rc) = Outcome(a0.code, a0.at)
                   /\ (a0.code = "OK" /\ ~MayDo(md, "/credentials", "renew")) =>
                         RenewCredentialsOutcome(md, rc)
                           = Outcome("Unauthorized", "authorize")
             /\ a1.code # "OK" => a1.at \in {"metadata", "parse", "iss", "aud", "nbf", "iat", "exp"}
             /\ a0.code # "OK" => a0.at \in {"metadata", "parse", "iss", "aud", "nbf", "iat"})
  /\ [][ /\ queue' # queue =>
              \E md \in Metadata, req \in Requests, attempts \in PushAttempts :
                 /\ Record(md, req, attempts)
                 /\ authenticate(md, TRUE, now).code = "OK"
                 /\ MayDo(md, "/record", "create")
         /\ (\E d \in codes' \ codes : d.role = "agent") =>
              \E md \in Metadata, did \in CodeDIDs, storeOk \in BOOLEAN :
                 /\ ActivationCode(md, did, "agent", storeOk)
                 /\ authenticate(md, TRUE, now).code = "OK"
                 /\ MayDo(md, "/activation_code/agent", "create")
         /\ (\E c \in issued' \ issued : c.from # GarbageString) =>
              \E md \in Metadata, rc \in RefreshCodes :
                 /\ RenewCredentials(md, rc)
                 /\ authenticate(md, FALSE, now).code = "OK"
                 /\ MayDo(md, "/credentials", "renew") ]_vars

C20_Witness ==
  \E c \in issued :
     /\ Expired(c.token)
     /\ ~authorize(c.token, "/record", "create")
     /\ RecordOutcome(<<BearerHeader(c.token)>>, 101, <<"ok", "ok">>)
          = Outcome("Unauthenticated", "exp")
     /\ RenewCredentialsOutcome(<<BearerHeader(c.token)>>, JunkCode)
          = Outcome("Unauthorized", "authorize")
     /\ RecordOutcome(<<>>, 101, <<"ok", "ok">>).code = "Unauthenticated"

\* ----------------------------------------------------------------------
\* Worker properties
\* ----------------------------------------------------------------------
\* The records of a batch, as a set.
RecordsOf(batch) == { batch[i] : i \in 1..Len(batch) }

\* The deliveries whose records reached the validation loop.
Validated == { i \in 1..Len(handled) : handled[i].path \in {"stored", "store error"} }

\* The validity the record contract states, at time t.
StatedValid(id, r, t) ==
  /\ r.did = id.did
  /\ r.lat # 0 /\ r.lng # 0
  /\ 0 < r.ts /\ r.ts <= t
  /\ r.hash = GenerateHash(r)
  /\ VerifySignature(id, r.hash, r.proof) = "nil"

\* C13: for every record the worker ran through validateRecord, the result
\* is true exactly when the DID is the submitter's, both coordinates are
\* non-zero, 0 < timestamp <= now, the hash is the generated one and the
\* proof verifies; a negative timestamp is therefore not valid.
C13_ValidIffStated ==
  \A i \in Validated :
    \A r \in RecordsOf(handled[i].msg.batch) :
      LET id == ResolveDID(handled[i].msg.did) IN
      validateRecord(id, r, now) <=> StatedValid(id, r, now)

\* The records of a batch that pass validateRecord one by one, in batch
\* order.
Passing(id, batch, t) == SelectSeq(batch, LAMBDA r : validateRecord(id, r, t))

\* C14: for every location_record delivery whose submitter resolves, the
\* list given to the bulk insert, and the list a successful insert saved,
\* is exactly the batch's records that pass validateRecord, in batch
\* order; it holds no record of another DID, of a future time, with a
\* wrong hash or with a bad signature.
C14_InsertsPassing ==
  /\ \A i \in Validated :
       LET id == ResolveDID(handled[i].msg.did) IN
       /\ handled[i].records = Passing(id, handled[i].msg.batch, now)
       /\ \A r \in RecordsOf(handled[i].records) :
            /\ r.did = id.did
            /\ r.ts <= now
            /\ r.hash = GenerateHash(r)
            /\ VerifySignature(id, r.hash, r.proof) = "nil"
  /\ \A k \in 1..Len(inserts) :
       /\ inserts[k].id \in Validated
       /\ handled[inserts[k].id].path = "stored"
       /\ inserts[k].records = handled[inserts[k].id].records

\* A batch whose second record is of another DID was handled, and its
\* first and third records were saved.
C14_Witness ==
  \E k \in 1..Len(inserts) :
    /\ handled[inserts[k].id].msg.batch = <<Good(1), WrongDID, Good(2)>>
    /\ inserts[k].records = <<Good(1), Good(2)>>

\* How many times delivery i appears in a list of acknowledgements.
Times(list, i) == Cardinality({ k \in 1..Len(list) : list[k] = i })

\* The paths of Worker.locationRecord the acknowledgement contract names.
NamedPaths == {"no header", "bad body", "unresolved", "store error", "stored"}

\* C15: every location_record delivery the worker handled, whichever path
\* it took (no DID header, undecodable body, unresolved identity, store
\* error, success), was acknowledged exactly once and never negatively
\* acknowledged; a store error leaves the delivery acknowledged.
C15_AckedOnce ==
  \A i \in 1..Len(handled) :
    (/\ handled[i].msg.type = "ct19.location_record"
     /\ handled[i].path \in NamedPaths)
      => /\ Times(acks, i) = 1
         /\ Times(nacks, i) = 0

\* A delivery whose insert failed was acknowledged, and one that was saved.
C15_Witness ==
  /\ \E i \in 1..Len(handled) :
       /\ handled[i].path = "store error"
       /\ handled[i].records # <<>>
       /\ Times(acks, i) = 1
  /\ \E i \in 1..Len(handled) :
       /\ handled[i].path = "stored"
       /\ Times(acks, i) = 1

\* C16: every handled delivery of a type other than ct19.location_record
\* and ct19.new_did was logged as a warning and acknowledged, and caused
\* no store write and no publish attempt; so every handled delivery, of
\* any type, was acknowledged.
C16_OtherTypesAcked ==
  /\ \A i \in 1..Len(handled) :
       handled[i].msg.type \notin {"ct19.location_record", "ct19.new_did"}
         => /\ \E k \in 1..Len(wlog) : wlog[k].id = i /\ wlog[k].level = "warning"
            /\ Times(acks, i) = 1
            /\ \A k \in 1..Len(inserts) : inserts[k].id # i
            /\ i \notin publishes
  /\ \A i \in 1..Len(handled) : Times(acks, i) >= 1

\* C17: no delivery, however malformed (DID header absent or not a string,
\* undecodable body, unresolved DID, undecodable DID document), and no
\* failed subscription leaves the worker crashed: the process is still
\* running after each of them.
C17_NeverCrashes == worker = "running"

\* C18: the queue connection and the store connection of the server and
\* of the worker are closed only once the event loop has returned.
C18_ClosedAfterLoop ==
  \A c \in Components :
    closing[c] \in {"queueClosed", "storeClosed"} => loop[c] = "returned"

\* ----------------------------------------------------------------------
\* Error codes, refresh codes and record hashes
\* ----------------------------------------------------------------------
\* Every shape of the authorization metadata: the values clients send and
\* a repeated value.
AuthShapes ==
  Metadata \cup { <<BearerHeader(GarbageString), BearerHeader(GarbageString)>> }

\* C21: for every shape of the authorization metadata (absent, repeated,
\* not starting with Bearer, "Bearer" with no second field, an unparsable
\* token, a token failing a claim check) a failed authentication answers
\* Unauthenticated and a failed authorization answers Unauthorized; there
\* is no panic and no other code.
C21_FixedAuthCodes ==
  \A md \in AuthShapes, chk \in BOOLEAN :
    LET a == authenticate(md, chk, now) IN
    /\ a.code \in {"OK", "Unauthenticated"}
    /\ (a.code = "OK" /\ chk /\ ~authorize(a.token, "/record", "create"))
         => RecordOutcome(md, MaxRecords, <<"ok", "ok">>).code = "Unauthorized"
    /\ (a.code = "OK" /\ ~chk /\ ~authorize(a.token, "/credentials", "renew"))
         => RenewCredentialsOutcome(md, JunkCode).code = "Unauthorized"

\* C22: the refresh code is a function of the root secret and the token
\* string alone: the code returned with a credential is the code the server
\* recomputes for that token at any later time, and the code computed for
\* the token under another root secret differs from it, so a renewal that
\* sends it is answered InvalidRequest.
C22_RefreshCodeOfSecret ==
  \A c \in issued :
    LET md == <<BearerHeader(c.token)>> IN
    /\ c.refresh = getRefreshCode(hashKey, c.token)
    /\ getRefreshCode(hashKeyRotated, c.token) # getRefreshCode(hashKey, c.token)
    /\ (/\ authenticate(md, FALSE, now).code = "OK"
        /\ authorize(c.token, "/credentials", "renew"))
         => /\ RenewCredentialsOutcome(md, getRefreshCode(hashKeyRotated, c.token))
                 = Outcome("InvalidRequest", "refresh")
            /\ RenewCredentialsOutcome(md, c.refresh).at # "refresh"

\* After the clock advanced, a renewable credential is refused with the
\* code of the other secret and not refused with its own.
C22_Witness ==
  \E c \in issued :
    /\ ticks > 0
    /\ authorize(c.token, "/credentials", "renew")
    /\ RenewCredentialsOutcome(<<BearerHeader(c.token)>>,
                               getRefreshCode(hashKeyRotated, c.token))
         = Outcome("InvalidRequest", "refresh")
    /\ RenewCredentialsOutcome(<<BearerHeader(c.token)>>, c.refresh) = Done

\* The five hashed fields of a record.
Fields(r) == <<r.did, r.lat, r.lng, r.alt, r.ts>>

\* C23: for the records of every batch the worker validated, equal (did,
\* lat, lng, alt, timestamp) give equal digests, and two records that
\* differ in one of the five fields give different digests.
C23_HashFieldSensitive ==
  \A i \in Validated :
    \A r1, r2 \in RecordsOf(handled[i].msg.batch) :
      (Fields(r1) = Fields(r2)) <=> (GenerateHash(r1) = GenerateHash(r2))

\* ----------------------------------------------------------------------
\* Expiry of activation codes
\* ----------------------------------------------------------------------
\* C24: at every time after the TTL of an activation code (60 seconds for
\* a user code, 86400 for an agent code) VerifyActivationCode returns false
\* for it: the lookup of a code older than its TTL finds nothing.
C24_ExpiredCodeRefused ==
  \A d \in codes :
    now > d.created + ttlIndex(d.role) => ~FindOne(d.did, d.role, d.code, TRUE)

\* ----------------------------------------------------------------------
\* Signature verification on both paths
\* ----------------------------------------------------------------------
\* What a successful verification of envelope over payload for id means.
Verifies(id, payload, envelope) ==
  /\ envelope.decodes
  /\ envelope.creator \in id.keys
  /\ envelope.signer = envelope.creator
  /\ envelope.digest = sha3Sum256(payload)

\* C27: VerifySignature succeeds only for an envelope that decodes, names a
\* key of the given identity and carries a signature by that key over the
\* digest of the payload; an undecodable envelope, a key of another
\* identity and a non-verifying signature each give an error.  This holds
\* for the proof over the activation code on the credentials path and for
\* the proof over the hash of every record the worker saved.
C27_VerifySignature ==
  /\ \A did \in Resolvable, code \in 0..MaxCodes :
       \A proof \in Proofs(did, code) :
         LET id == ResolveDID(did) IN
         /\ (AccessTokenChecks(did, code, proof) = "nil") <=> Verifies(id, code, proof)
         /\ ~proof.decodes
              => VerifySignature(id, code, proof) = "invalid signature document"
         /\ (proof.decodes /\ proof.creator \notin id.keys)
              => VerifySignature(id, code, proof) = "invalid key identifier"
         /\ (proof.decodes /\ proof.creator \in id.keys /\ ~Verifies(id, code, proof))
              => VerifySignature(id, code, proof) = "invalid signature"
  /\ \A i \in Validated :
       LET id == ResolveDID(handled[i].msg.did) IN
       /\ \A r \in RecordsOf(handled[i].records) : Verifies(id, r.hash, r.proof)
       /\ \A r \in RecordsOf(handled[i].msg.batch) :
            validateRecord(id, r, now) => VerifySignature(id, r.hash, r.proof) = "nil"

\* A batch with a record signed by a key of another identity was handled;
\* that record was left out and the others were saved.
C27_Witness ==
  \E k \in 1..Len(inserts) :
    /\ BadProof \in RecordsOf(handled[inserts[k].id].msg.batch)
    /\ BadProof \notin RecordsOf(inserts[k].records)
    /\ inserts[k].records # <<>>

\* ----------------------------------------------------------------------
\* Renewal leaves the presented credential as it was
\* ----------------------------------------------------------------------
\* C29: a successful renewal changes nothing about the credential that was
\* presented: in every later state its token is accepted by authenticate
\* as long as its own expiration has not passed, and the same token with
\* the same refresh code is not refused by a further renewal, however many
\* renewals it has served and however late.
C29_RenewalKeepsCredential ==
  \A c \in issued :
    c.from # GarbageString =>
      LET md == <<BearerHeader(c.from)>> IN
      /\ now <= c.from.claims.exp => authenticate(md, TRUE, now).code = "OK"
      /\ authenticate(md, FALSE, now).code = "OK"
      /\ RenewCredentialsOutcome(md, c.with) = Done

\* A credential was renewed, the clock has passed the expiration of its
\* token, and a renewal with the same token and code goes through again.
C29_Witness ==
  \E c \in issued :
    /\ c.from # GarbageString
    /\ SignedByMaster(c.from)
    /\ now > c.from.claims.exp
    /\ RenewCredentialsOutcome(<<BearerHeader(c.from)>>, c.with) = Done

\* ----------------------------------------------------------------------
\* The record pipeline
\* ----------------------------------------------------------------------
\* C25: the consumption loop does not wait for the handler of a
\* location_record delivery: while one is being validated and saved and the
\* subscription has another message ready, the loop can take it, so that
\* two batches of one subscription are in flight together.
C25_TakesNextWithoutWaiting ==
  (/\ Delivering
   /\ inflight # <<>>
   /\ inflight[1].stage = "received"
   /\ queue # <<>>)
     => ENABLED handleTasksReceive

\* C26: the records of one published task message are written to the store
\* at most once, also when the worker is killed at some point of the
\* handling and the broker delivers the unacknowledged message again.
C26_SavedAtMostOnce ==
  \A i \in 1..Len(inflight) : inflight[i].saved <= 1

\* C28: every saved record has the DID of the "did" header of the message
\* it arrived in, and the header of every message of the server, queued, in
\* flight or handled, is the DID claim of the token its request presented;
\* records of another DID in the payload do not change the submitter.
C28_SubmitterFromCredential ==
  /\ \A i \in 1..Len(queue) : queue[i].did = tokenDecode(queue[i].by).DID
  /\ \A i \in 1..Len(inflight) :
       inflight[i].msg.did = tokenDecode(inflight[i].msg.by).DID
  /\ \A i \in 1..Len(handled) :
       /\ handled[i].msg.did = tokenDecode(handled[i].msg.by).DID
       /\ \A r \in RecordsOf(handled[i].records) : r.did = handled[i].msg.did
  /\ \A k \in 1..Len(inserts) :
       /\ inserts[k].records = handled[inserts[k].id].records
       /\ \A r \in RecordsOf(inserts[k].records) :
            r.did = tokenDecode(handled[inserts[k].id].msg.by).DID

\* A batch with a record of another DID, submitted with an issued
\* credential, was saved without that record.
C28_Witness ==
  \E k \in 1..Len(inserts) :
    LET d == handled[inserts[k].id] IN
    /\ d.msg.by \in IssuedTokens
    /\ WrongDID \in RecordsOf(d.msg.batch)
    /\ inserts[k].records = <<Good(1), Good(2)>>
    /\ DIDOf(CHOOSE c \in issued : c.token = d.msg.by) = "did:a"

\* C30: Record neither reads nor writes the records collection and checks
\* no record: the step that publishes a message leaves the store, the
\* worker's record of deliveries and its log as they were, the message
\* carries the request as it was submitted, invalid records included, and
\* a request made of invalid records only is answered ok once the broker
\* took its message.
C30_IngestLeavesStore ==
  /\ [](/\ \A i \in 1..Len(queue) :
             /\ queue[i].body \in PipelineBatches
             /\ queue[i].len = Len(queue[i].body)
        /\ \A md \in Submitters, req \in PipelineBatches :
             (/\ authenticate(md, TRUE, now).code = "OK"
              /\ authorize(md[1].tok, "/record", "create"))
               => RecordOutcome(md, Len(req), <<"ok", "ok">>) = Done)
  /\ [][Len(queue') > Len(queue) =>
          /\ inserts' = inserts
          /\ handled' = handled
          /\ wlog' = wlog
          /\ \E md \in Submitters, req \in PipelineBatches, attempts \in PushAttempts :
               attempts[1] = "ok" /\ Record(md, req, attempts)]_vars

\* A request of invalid records only is in the queue and nothing has been
\* saved.
C30_Witness ==
  /\ inserts = <<>>
  /\ \E i \in 1..Len(queue) :
       /\ queue[i].body = <<Negative, BadHash>>
       /\ queue[i].by \in IssuedTokens

\* ----------------------------------------------------------------------
\* Deliveries that leave the records collection alone
\* ----------------------------------------------------------------------
\* A delivery the worker cannot save anything of: it has no "did" header,
\* its body does not decode, its submitter does not resolve, or none of its
\* records passes validateRecord at time t.
NothingToSave(msg, t) ==
  \/ msg.header = "absent"
  \/ msg.body # "ok"
  \/ ~ResolveDID(msg.did).ok
  \/ \A r \in RecordsOf(msg.batch) : ~validateRecord(ResolveDID(msg.did), r, t)

\* C31: the handling of a location_record delivery that has no did header,
\* or whose body does not decode, or whose submitter does not resolve, or
\* of which no record passes validation, saves nothing: no insert belongs
\* to such a delivery, and the step that handles it leaves the saved
\* records as they were.
C31_NothingSaved ==
  /\ [](\A i \in 1..Len(handled) :
          (/\ handled[i].msg.type = "ct19.location_record"
           /\ NothingToSave(handled[i].msg, now))
            => \A k \in 1..Len(inserts) : inserts[k].id # i)
  /\ [][(/\ Len(handled') > Len(handled)
          /\ handled'[Len(handled')].msg.type = "ct19.location_record"
          /\ NothingToSave(handled'[Len(handled')].msg, now))
            => inserts' = inserts]_vars

\* A batch of three records of which none passes was handled with the store
\* at hand, and a delivery without header, and nothing was saved.
C31_Witness ==
  /\ inserts = <<>>
  /\ \E i \in 1..Len(handled) :
       /\ handled[i].msg.batch = <<WrongDID, ZeroTime, BadHash>>
       /\ handled[i].path = "store error"
       /\ handled[i].records = <<>>
  /\ \E i \in 1..Len(handled) : handled[i].path = "no header"

\* ----------------------------------------------------------------------
\* Activation codes: what a refused request leaves behind, and scoping
\* ----------------------------------------------------------------------
\* A request for did with proof over code whose identity resolves and whose
\* proof verifies.
Proven(did, code, proof) ==
  ResolveDID(did).ok /\ Verifies(ResolveDID(did), code, proof)

\* C32: a Credentials request whose identity does not resolve or whose
\* proof does not verify is answered with an error at that step and never
\* reaches VerifyActivationCode: every request that is past the lookup has
\* a resolved identity and a verified proof, every code that leaves the
\* store leaves it by the delete of such a request or by its TTL, and the
\* code a refused request named is still found by a valid request.
C32_RefusedKeepsCode ==
  /\ [](/\ \A p \in Handlers :
             hs[p].pc = "delete" => Proven(hs[p].did, hs[p].code, hs[p].proof)
        /\ \A d \in codes, did \in DIDStrings :
             \A proof \in Proofs(did, d.code) :
               ~Proven(did, d.code, proof) =>
                  /\ CredentialsOutcome(did, d.role, d.code, proof, TRUE).code = "Unknown"
                  /\ CredentialsOutcome(did, d.role, d.code, proof, TRUE).at
                       \in {"resolve", "proof"}
                  /\ d.did \in Resolvable =>
                       CredentialsOutcome(d.did, d.role, d.code,
                                          Proof(d.did, d.did, d.code), TRUE)
                         = Outcome("pending", "delete"))
  /\ [][\A d \in codes \ codes' :
          \/ now > d.created + ttlIndex(d.role)
          \/ \E p \in Handlers :
               /\ hs[p].pc = "delete"
               /\ <<hs[p].did, hs[p].role, hs[p].code>> = <<d.did, d.role, d.code>>
               /\ Proven(hs[p].did, hs[p].code, hs[p].proof)]_vars

\* A code is stored that a request with a proof over another value and a
\* request of an unpublished identity were refused for, and a code was
\* consumed by a request that proved possession.
C32_Witness ==
  /\ \E d \in codes :
       /\ d.did \in Resolvable
       /\ CredentialsOutcome(d.did, d.role, d.code, Proof(d.did, d.did, 0), TRUE)
            = Outcome("Unknown", "proof")
       /\ CredentialsOutcome(Unpublished, d.role, d.code,
                             Proof(Unpublished, Unpublished, d.code), TRUE)
            = Outcome("Unknown", "resolve")
       /\ CredentialsOutcome(d.did, d.role, d.code, Proof(d.did, d.did, d.code), TRUE)
            = Outcome("pending", "delete")
  /\ consumed # {}

\* C33: VerifyActivationCode consumes the code before getToken builds and
\* signs the token, and nothing puts the code back: on a server whose token
\* generator fails, the Credentials RPC has returned no credential, and
\* every code for which VerifyActivationCode returned true is gone from the
\* store, so that no later request finds it.
C33_ConsumedBeforeSigning ==
  ~tgOk =>
     /\ FromCodes = {}
     /\ \A d \in codes :
          d.code \in consumed => ~FindOne(d.did, d.role, d.code, TRUE)

\* The (did, role, code) a request in handler p names.
Named(p) == <<hs[p].did, hs[p].role, hs[p].code>>

\* C34: a stored code of (D, R) is found only by a request that names D, R
\* and the code: a request naming another DID or another role with that
\* code never gets past the lookup, whatever its proof; a request gets past
\* the lookup only on a stored code of its own DID and role; and the delete
\* of a consumed code leaves every other stored code, those of the same DID
\* and role included, in the store.
C34_ScopedByDidAndRole ==
  /\ [](\A d \in codes, did \in DIDStrings, role \in RoleStrings :
          <<did, role>> # <<d.did, d.role>> =>
             /\ ~FindOne(did, role, d.code, TRUE)
             /\ \A proof \in Proofs(did, d.code) :
                  CredentialsOutcome(did, role, d.code, proof, TRUE).code # "pending")
  /\ [][\A p \in Handlers :
          /\ (hs[p].pc = "idle" /\ hs'[p].pc = "delete") =>
                \E d \in codes :
                   <<d.did, d.role, d.code>> = <<hs'[p].did, hs'[p].role, hs'[p].code>>
          /\ (hs[p].pc = "delete" /\ hs'[p].pc = "idle") =>
                \A d \in codes :
                   <<d.did, d.role, d.code>> # Named(p) => d \in codes']_vars

\* Two codes of one DID and role were generated; one was consumed and is
\* gone, the other is still stored, and a request naming it for the agent
\* role or for another DID is refused at the lookup.
C34_Witness ==
  \E d \in codes, c \in consumed :
    /\ d.did = "did:a" /\ d.role = "user"
    /\ c # d.code
    /\ c \notin delFailed
    /\ \A e \in codes : e.code # c
    /\ \E i \in FromCodes : DIDOf(i) = "did:a" /\ RoleOf(i) = "user"
    /\ CredentialsOutcome("did:a", "agent", d.code, Proof("did:a", "did:a", d.code), TRUE)
         = Outcome("InvalidRequest", "code")
    /\ CredentialsOutcome("did:b", "user", d.code, Proof("did:b", "did:b", d.code), TRUE)
         = Outcome("InvalidRequest", "code")

\* ----------------------------------------------------------------------
\* The clock a record's timestamp is compared with
\* ----------------------------------------------------------------------
\* C35: for every record the worker validated that is valid at its own
\* timestamp, the record was given to the store exactly when the worker's
\* clock, as the handler ran, had reached the timestamp; the time the
\* server accepted the message plays no part, so that a record that was
\* ahead of the clock when it was submitted is saved when the message is
\* handled at or after its timestamp and dropped when handled before.
C35_ClockOfValidation ==
  \A i \in Validated :
    LET d  == handled[i]
        id == ResolveDID(d.msg.did)
    IN \A r \in RecordsOf(d.msg.batch) :
         StatedValid(id, r, r.ts) =>
            /\ (r \in RecordsOf(d.records)) <=> (r.ts <= d.at)
            /\ (d.path = "stored" /\ r.ts <= d.at) =>
                  \E k \in 1..Len(inserts) :
                     inserts[k].id = i /\ r \in RecordsOf(inserts[k].records)

\* A record that was ahead of the clock when its message was accepted was
\* saved by a handler that ran once the clock had reached its timestamp.
C35_Witness ==
  \E k \in 1..Len(inserts) :
    LET d == handled[inserts[k].id] IN
    /\ d.msg.timestamp < Later.ts
    /\ Later.ts <= d.at
    /\ Later \in RecordsOf(d.msg.batch)
    /\ Later \in RecordsOf(inserts[k].records)

\* ----------------------------------------------------------------------
\* Shutdown of the worker
\* ----------------------------------------------------------------------
\* C36: once Worker.Close has closed the store connection, no handler of a
\* location_record delivery is still on its way to the store: a delivery
\* that handleTasks has taken has had its store call before store.Close.
C36_StoreClosedAfterHandlers ==
  closing["worker"] = "storeClosed" =>
     \A i \in 1..Len(inflight) : inflight[i].stage # "received"

\* C37: once its context is cancelled each event loop eventually returns,
\* and once the consumer is closed every handleTasks goroutine the event
\* loop started, the one started after a failed Subscribe included, has
\* eventually returned.
C37_Termination ==
  /\ \A c \in Components : ctxDone[c] ~> (loop[c] = "returned")
  /\ (closing["worker"] \in {"queueClosed", "storeClosed"})
       ~> (\A i \in 1..Len(tasks) : tasks[i] = "returned")

\* ----------------------------------------------------------------------
\* new_did deliveries
\* ----------------------------------------------------------------------
\* C38: every new_did delivery the worker handled was acknowledged exactly
\* once, whatever its content, and for one whose body does not decode to a
\* DID document the failure was logged and no publish request was started.
C38_BadDocumentNotPublished ==
  \A i \in 1..Len(handled) :
    handled[i].msg.type = "ct19.new_did" =>
       /\ Times(acks, i) = 1
       /\ Times(nacks, i) = 0
       /\ handled[i].msg.body # "ok" =>
            /\ \E k \in 1..Len(wlog) : wlog[k].id = i /\ wlog[k].level = "warning"
            /\ i \notin publishes

====
